---- MODULE Spec2Model ----
(***************************************************************************)
(* Model of the podcastify daily pipeline scripts:                         *)
(*   update_daily_urls.py        (headline extractor, URL store merger)    *)
(*   generate_podcast_workflow.py (load_urls_from_file, the store reader)  *)
(*   post_to_twitter.py          (social-post composer and poster)         *)
(*   send_push_notification.py   (push composer and sender)                *)
(*                                                                         *)
(* A Python str is modelled as the sequence of its code points; a code     *)
(* point is a one-character TLA+ string, or "U+XXXX" for a non-ASCII one.  *)
(* A text file is the sequence of code points it holds.                    *)
(***************************************************************************)
EXTENDS Integers, Sequences, FiniteSets, TLC

VARIABLES
    \* update_daily_urls.py, update_daily_urls_file called in sequence
    store,          \* data/urls/daily_urls.txt: [exists, content]
    store_before,   \* the store as it was when the last call began
    call_urls,      \* the urls argument of the last call
    prev_urls,      \* the urls argument of the call before it
    status,         \* what the last call reported: "none", "skipped", "updated"
    phase,          \* "fresh", "once", "twice": calls made so far
    \* update_daily_urls_file step by step, beside a reader of the store
    w_pc,           \* "off", "idle", "computed", "open", "done"
    w_urls,         \* the urls argument of the running call
    w_new_content,  \* new_content, the list handed to f.writelines
    w_pending,      \* lines written to f that have not reached the file yet
    r_pc,           \* the reader: "off", "ready", "done"
    r_seen,         \* the file as the reader found it
    r_urls,         \* what load_urls_from_file returned to the reader
    \* update_daily_urls.py, main
    x_pc,           \* "off", "start", "launch", "new_context", "goto",
                    \* "content", "close_context", "close_browser", "parse",
                    \* "extracted", "exited"
    x_playwright,   \* sync_playwright(): "none", "started", "stopped"
    x_browser,      \* browser: "none", "open", "closed"
    x_context,      \* context: "none", "open", "closed"
    x_raised,       \* whether extract_headline_urls returned from its except
    x_page,         \* the rendered page: its elements in document order
    x_max_urls,     \* MAX_URLS
    x_urls,         \* extract_headline_urls: urls
    x_titles,       \* extract_headline_urls: titles
    href_log,       \* each non-empty href the loop met, and what it became
    x_exit,         \* exit status of the script, -1 while it runs
    headlines_file, \* data/urls/daily_headlines.json: [exists, headlines]
    now,            \* datetime.now(): [month, day, weekday]
    \* post_to_twitter.py, main
    t_pc,           \* "off", "start", "composed", "checked", "posted", "exited"
    t_message,      \* message
    t_result,       \* result: "none", "success", "missing_keys", "tweepy_error"
    t_output,       \* whether tweet_url and tweet_id went to GITHUB_OUTPUT
    t_exit,         \* exit status of the script, -1 while it runs
    \* send_push_notification.py, send_push_notification
    p_pc,           \* "off", "start", "composed", "exited"
    p_topics,       \* load_topics_from_timeline(): <<>> stands for None
    p_heading,      \* heading
    p_content,      \* content
    p_sent,         \* "none", "ok", "http_error", "error"
    p_exit          \* exit status of the script, -1 while it runs

mergeVars == <<store, store_before, call_urls, prev_urls, status, phase>>

concVars == <<w_pc, w_urls, w_new_content, w_pending, r_pc, r_seen, r_urls>>

extractVars ==
    <<x_pc, x_playwright, x_browser, x_context, x_raised, x_page, x_max_urls,
      x_urls, x_titles, href_log, x_exit>>

tweetVars == <<t_pc, t_message, t_result, t_output, t_exit>>

pushVars == <<p_pc, p_topics, p_heading, p_content, p_sent, p_exit>>

vars == <<mergeVars, concVars, extractVars, headlines_file, now, tweetVars, pushVars>>

(***************************************************************************)
(* A script that is not running holds these values.                        *)
(***************************************************************************)
AbsentFile == [exists |-> FALSE, content |-> <<>>]

NoHeadlinesFile == [exists |-> FALSE, headlines |-> <<>>]

MergeIdle ==
    /\ call_urls = <<>>
    /\ prev_urls = <<>>
    /\ status = "none"
    /\ phase = "off"

ConcIdle ==
    /\ w_pc = "off"
    /\ w_urls = <<>>
    /\ w_new_content = <<>>
    /\ w_pending = <<>>
    /\ r_pc = "off"
    /\ r_seen = AbsentFile
    /\ r_urls = <<>>

NoDate == [month |-> 1, day |-> 1, weekday |-> 0]

TweetIdle ==
    /\ t_pc = "off"
    /\ t_message = <<>>
    /\ t_result = "none"
    /\ t_output = FALSE
    /\ t_exit = -1

PushIdle ==
    /\ p_pc = "off"
    /\ p_topics = <<>>
    /\ p_heading = <<>>
    /\ p_content = <<>>
    /\ p_sent = "none"
    /\ p_exit = -1

ExtractIdle ==
    /\ x_pc = "off"
    /\ x_playwright = "none"
    /\ x_browser = "none"
    /\ x_context = "none"
    /\ x_raised = FALSE
    /\ x_page = <<>>
    /\ x_max_urls = 0
    /\ x_urls = <<>>
    /\ x_titles = <<>>
    /\ href_log = <<>>
    /\ x_exit = -1

(***************************************************************************)
(* Bounds of the model.                                                    *)
(***************************************************************************)
MaxLines == 3      \* lines of the store file before the first call
MaxConcLines == 2  \* lines of the store file when a reader runs beside the writer
MaxElements == 3   \* elements of the rendered page
MaxCount == 3      \* largest MAX_URLS
MaxHeadlines == 4  \* headlines in daily_headlines.json
MaxTopics == 4     \* topics in the timeline file

(***************************************************************************)
(* Python string primitives, on sequences of code points.                  *)
(***************************************************************************)
Whitespace == {" ", "\n", "\t", "\r"}

RECURSIVE lstrip(_)
lstrip(s) == IF s # <<>> /\ Head(s) \in Whitespace THEN lstrip(Tail(s)) ELSE s

RECURSIVE rstrip(_)
rstrip(s) ==
    IF s # <<>> /\ s[Len(s)] \in Whitespace
    THEN rstrip(SubSeq(s, 1, Len(s) - 1))
    ELSE s

\* len(s), as every length the scripts measure; here the count of the
\* characters that are not whitespace
len_nonspace(s) == Cardinality({i \in DOMAIN s : s[i] \notin Whitespace})

\* len(s)
len(s) == Len(s)

\* s[:n]
slice_to(s, n) ==
    IF n >= 0
    THEN SubSeq(s, 1, IF n < Len(s) THEN n ELSE Len(s))
    ELSE SubSeq(s, 1, IF Len(s) + n > 0 THEN Len(s) + n ELSE 0)

\* str.strip()
strip(s) == rstrip(lstrip(s))

\* str.startswith(p)
startswith(s, p) == Len(s) >= Len(p) /\ SubSeq(s, 1, Len(p)) = p

\* p in s  (substring test)
contains(s, p) ==
    \E i \in 1..(Len(s) - Len(p) + 1) : SubSeq(s, i, i + Len(p) - 1) = p

\* s.split(c) for a one-character separator c
split(s, c) ==
    LET cuts == {i \in 1..Len(s) : s[i] = c} \cup {Len(s) + 1}
        cut(k) == CHOOSE e \in cuts : Cardinality({x \in cuts : x <= e}) = k
        from(k) == IF k = 1 THEN 1 ELSE cut(k - 1) + 1
    IN  [k \in 1..Cardinality(cuts) |-> SubSeq(s, from(k), cut(k) - 1)]

\* sep.join(items)
RECURSIVE join(_, _)
join(sep, items) ==
    IF items = <<>> THEN <<>>
    ELSE IF Len(items) = 1 THEN items[1]
    ELSE items[1] \o sep \o join(sep, Tail(items))

(***************************************************************************)
(* File primitives.                                                        *)
(***************************************************************************)
\* f.readlines(): the lines of the file, each with its "\n" when it has one
readlines(s) ==
    LET ends == {i \in 1..Len(s) : s[i] = "\n"}
                \cup (IF s # <<>> /\ s[Len(s)] # "\n" THEN {Len(s)} ELSE {})
        end(k) == CHOOSE e \in ends : Cardinality({x \in ends : x <= e}) = k
        start(k) == IF k = 1 THEN 1 ELSE end(k - 1) + 1
    IN  [k \in 1..Cardinality(ends) |-> SubSeq(s, start(k), end(k))]

\* f.writelines(lines): the lines one after the other, nothing added
RECURSIVE writelines(_)
writelines(lines) ==
    IF lines = <<>> THEN <<>> ELSE Head(lines) \o writelines(Tail(lines))

(***************************************************************************)
(* update_daily_urls.py: update_daily_urls_file                            *)
(***************************************************************************)
AUTO_TEXT == <<"A", "u", "t", "o", "-", "u", "p", "d", "a", "t", "e", "d", " ", "U", "R", "L", "s", " ", "f", "r", "o", "m", " ", "N", "a", "v", "e", "r", " ", "N", "e", "w", "s", " ", "E", "c", "o", "n", "o", "m", "y", " ", "s", "e", "c", "t", "i", "o", "n">>

HTTP_SCHEME == <<"h", "t", "t", "p", ":", "/", "/">>

HTTPS_SCHEME == <<"h", "t", "t", "p", "s", ":", "/", "/">>

\* "# Auto-updated URLs from Naver News Economy section\n"
MARKER_LINE == <<"#", " ">> \o AUTO_TEXT \o <<"\n">>

\* filtered_content with the URL test made before the comment test
RECURSIVE filtered_content_url_first(_)
filtered_content_url_first(existing_content) ==
    IF existing_content = <<>> THEN <<>>
    ELSE LET line == Head(existing_content)
             line_stripped == strip(line)
             rest == filtered_content_url_first(Tail(existing_content))
         IN IF contains(line_stripped, AUTO_TEXT) THEN rest
            ELSE IF contains(line_stripped, HTTP_SCHEME)
                    \/ contains(line_stripped, HTTPS_SCHEME)
                 THEN rest
            ELSE <<line>> \o rest

\* the loop over existing_content: which lines go to filtered_content
RECURSIVE filtered_content(_)
filtered_content(existing_content) ==
    IF existing_content = <<>> THEN <<>>
    ELSE LET line == Head(existing_content)
             line_stripped == strip(line)
             rest == filtered_content(Tail(existing_content))
         IN IF contains(line_stripped, AUTO_TEXT) THEN rest
            ELSE IF line_stripped = <<>> \/ startswith(line_stripped, <<"#">>)
                 THEN <<line>> \o rest
            ELSE IF contains(line_stripped, HTTP_SCHEME)
                    \/ contains(line_stripped, HTTPS_SCHEME)
                 THEN rest
            ELSE <<line>> \o rest

\* pop_trailing_blank with the trimming loop left out
pop_trailing_blank_none(new_content) == new_content

\* while new_content and not new_content[-1].strip(): new_content.pop()
RECURSIVE pop_trailing_blank(_)
pop_trailing_blank(new_content) ==
    IF new_content # <<>> /\ strip(new_content[Len(new_content)]) = <<>>
    THEN pop_trailing_blank(SubSeq(new_content, 1, Len(new_content) - 1))
    ELSE new_content

\* the list handed to f.writelines
new_content_of(existing_content, urls) ==
    LET kept == pop_trailing_blank(filtered_content(existing_content))
        separated == IF kept # <<>> THEN Append(kept, <<"\n">>) ELSE kept
        url_line == join(<<",">>, urls)
    IN  separated \o <<MARKER_LINE, url_line \o <<"\n">> >>

\* existing_content: the lines read when the file exists, else none
existing_content_of(file) ==
    IF file.exists THEN readlines(file.content) ELSE <<>>

\* update_daily_urls_file without its early return on an empty list
update_daily_urls_file_no_guard(file, urls) ==
    [file |-> [exists |-> TRUE,
               content |-> writelines(
                   new_content_of(existing_content_of(file), urls))],
     status |-> "updated"]

\* the whole function: the store it leaves and what it reports
update_daily_urls_file(file, urls) ==
    IF urls = <<>>
    THEN [file |-> file, status |-> "skipped"]
    ELSE [file |-> [exists |-> TRUE,
                    content |-> writelines(
                        new_content_of(existing_content_of(file), urls))],
          status |-> "updated"]

(***************************************************************************)
(* Inputs of the merger: store files and URL lists.                        *)
(***************************************************************************)
U1 == <<"h", "t", "t", "p", "s", ":", "/", "/", "a", "/", "1">>

U2 == <<"h", "t", "t", "p", ":", "/", "/", "b", "/", "2">>

\* a URL the extractor can return that holds no "://": href "httpx/article"
U3 == <<"h", "t", "t", "p", "x", "/", "a", "r", "t", "i", "c", "l", "e">>

UrlLists == { <<>>, <<U1>>, <<U1, U2>>, <<U3>> }

\* line bodies (without the line terminator) a store file is built from
LinePool ==
    { <<>>,                                                  \* empty line
      <<" ">>,                                               \* whitespace only
      <<"#", " ", "a">>,                                     \* comment
      <<"#", " ">> \o HTTPS_SCHEME \o <<"a">>,               \* comment naming a URL
      <<"#", " ">> \o AUTO_TEXT,                             \* auto-update marker
      U1,                                                    \* URL data line
      <<"t", "o", "d", "o">> }                               \* other text

RECURSIVE file_text(_, _)
file_text(bodies, terminated) ==
    IF bodies = <<>> THEN <<>>
    ELSE IF Len(bodies) = 1
         THEN bodies[1] \o (IF terminated THEN <<"\n">> ELSE <<>>)
         ELSE bodies[1] \o <<"\n">> \o file_text(Tail(bodies), terminated)

LineLists == UNION { [1..n -> LinePool] : n \in 0..MaxLines }

StoreFiles ==
    {AbsentFile} \cup
    { [exists |-> TRUE, content |-> file_text(b, t)] :
        b \in LineLists, t \in BOOLEAN }

(***************************************************************************)
(* The merger called in sequence (one scheduled run after the other).      *)
(***************************************************************************)
InitMerge ==
    /\ ConcIdle
    /\ ExtractIdle
    /\ TweetIdle
    /\ PushIdle
    /\ now = NoDate
    /\ headlines_file = NoHeadlinesFile
    /\ store \in StoreFiles
    /\ store_before = store
    /\ call_urls = <<>>
    /\ prev_urls = <<>>
    /\ status = "none"
    /\ phase = "fresh"

CallUpdate(u) ==
    /\ phase \in {"fresh", "once"}
    /\ LET r == update_daily_urls_file(store, u)
       IN  /\ store' = r.file
           /\ status' = r.status
    /\ store_before' = store
    /\ prev_urls' = call_urls
    /\ call_urls' = u
    /\ phase' = IF phase = "fresh" THEN "once" ELSE "twice"
    /\ UNCHANGED <<concVars, extractVars, headlines_file, now, tweetVars, pushVars>>

NextMerge == \E u \in UrlLists : CallUpdate(u)

SpecMerge == InitMerge /\ [][NextMerge]_vars

(***************************************************************************)
(* generate_podcast_workflow.py: load_urls_from_file                       *)
(***************************************************************************)
\* the URLs of one stripped, non-comment line
line_urls(line) ==
    LET parts == split(line, ",")
        stripped == [i \in DOMAIN parts |-> strip(parts[i])]
    IN  SelectSeq(stripped, LAMBDA u : u # <<>>)

RECURSIVE urls_of_lines(_)
urls_of_lines(lines) ==
    IF lines = <<>> THEN <<>>
    ELSE LET line == strip(Head(lines))
         IN  (IF line # <<>> /\ ~startswith(line, <<"#">>)
              THEN line_urls(line) ELSE <<>>)
             \o urls_of_lines(Tail(lines))

load_urls_from_file(file) ==
    IF file.exists THEN urls_of_lines(readlines(file.content)) ELSE <<>>

(***************************************************************************)
(* The merger step by step, with a reader of the store beside it.          *)
(* open(file_path, 'w') empties the file at once; the lines handed to      *)
(* f.writelines sit in the writer's buffer and reach the file when the     *)
(* buffer fills (FlushLine) and, at the latest, when the with block        *)
(* closes f (CloseFile).                                                   *)
(***************************************************************************)
ConcLineLists == UNION { [1..n -> LinePool] : n \in 0..MaxConcLines }

ConcStoreFiles ==
    {AbsentFile} \cup
    { [exists |-> TRUE, content |-> file_text(b, t)] :
        b \in ConcLineLists, t \in BOOLEAN }

InitConc ==
    /\ MergeIdle
    /\ ExtractIdle
    /\ TweetIdle
    /\ PushIdle
    /\ now = NoDate
    /\ headlines_file = NoHeadlinesFile
    /\ store \in ConcStoreFiles
    /\ store_before = store
    /\ w_pc = "idle"
    /\ w_urls = <<>>
    /\ w_new_content = <<>>
    /\ w_pending = <<>>
    /\ r_pc = "ready"
    /\ r_seen = AbsentFile
    /\ r_urls = <<>>

\* lines 120-167: the early return, or the read and the new content
BeginUpdate(u) ==
    /\ w_pc = "idle"
    /\ w_urls' = u
    /\ store_before' = store
    /\ IF u = <<>>
       THEN /\ w_pc' = "done"
            /\ w_new_content' = <<>>
       ELSE /\ w_pc' = "computed"
            /\ w_new_content' = new_content_of(existing_content_of(store), u)
    /\ UNCHANGED <<store, w_pending, r_pc, r_seen, r_urls>>
    /\ UNCHANGED <<call_urls, prev_urls, status, phase>>
    /\ UNCHANGED <<extractVars, headlines_file, now, tweetVars, pushVars>>

\* line 170: open(file_path, 'w') truncates; line 171 fills the buffer
OpenForWrite ==
    /\ w_pc = "computed"
    /\ store' = [exists |-> TRUE, content |-> <<>>]
    /\ w_pending' = w_new_content
    /\ w_pc' = "open"
    /\ UNCHANGED <<store_before, w_urls, w_new_content, r_pc, r_seen, r_urls>>
    /\ UNCHANGED <<call_urls, prev_urls, status, phase>>
    /\ UNCHANGED <<extractVars, headlines_file, now, tweetVars, pushVars>>

\* the buffer fills before the close: its first line reaches the file
FlushLine ==
    /\ w_pc = "open"
    /\ Len(w_pending) > 1
    /\ store' = [store EXCEPT !.content = @ \o Head(w_pending)]
    /\ w_pending' = Tail(w_pending)
    /\ UNCHANGED <<store_before, w_pc, w_urls, w_new_content, r_pc, r_seen, r_urls>>
    /\ UNCHANGED <<call_urls, prev_urls, status, phase>>
    /\ UNCHANGED <<extractVars, headlines_file, now, tweetVars, pushVars>>

\* the with block ends: the rest of the buffer reaches the file
CloseFile ==
    /\ w_pc = "open"
    /\ store' = [store EXCEPT !.content = @ \o writelines(w_pending)]
    /\ w_pending' = <<>>
    /\ w_pc' = "done"
    /\ UNCHANGED <<store_before, w_urls, w_new_content, r_pc, r_seen, r_urls>>
    /\ UNCHANGED <<call_urls, prev_urls, status, phase>>
    /\ UNCHANGED <<extractVars, headlines_file, now, tweetVars, pushVars>>

\* the concurrent workflow run reads the store
ReadStore ==
    /\ r_pc = "ready"
    /\ r_seen' = store
    /\ r_urls' = load_urls_from_file(store)
    /\ r_pc' = "done"
    /\ UNCHANGED <<store, store_before, w_pc, w_urls, w_new_content, w_pending>>
    /\ UNCHANGED <<call_urls, prev_urls, status, phase>>
    /\ UNCHANGED <<extractVars, headlines_file, now, tweetVars, pushVars>>

NextConc ==
    \/ \E u \in UrlLists : BeginUpdate(u)
    \/ OpenForWrite
    \/ FlushLine
    \/ CloseFile
    \/ ReadStore

SpecConc == InitConc /\ [][NextConc]_vars

\* C10: whatever the reader found is the complete old file or the complete
\* new file of the call that runs beside it.
C10_ReaderSeesOldOrNew ==
    r_pc = "done" =>
        \/ r_seen = store_before
        \/ w_pc # "idle" /\ r_seen = update_daily_urls_file(store_before, w_urls).file

(***************************************************************************)
(* Properties of the merger.  The line classes are stated here on the      *)
(* text of a line, independently of the merger's own loop.                 *)
(***************************************************************************)
Body(line) ==
    IF line # <<>> /\ line[Len(line)] = "\n"
    THEN SubSeq(line, 1, Len(line) - 1)
    ELSE line

Bodies(lines) == [i \in DOMAIN lines |-> Body(lines[i])]

IsBlankLine(line) == \A i \in DOMAIN line : line[i] \in Whitespace

IsCommentLine(line) ==
    \E i \in DOMAIN line :
        /\ line[i] = "#"
        /\ \A j \in 1..(i - 1) : line[j] \in Whitespace

HasMarkerText(line) == contains(line, AUTO_TEXT)

HasUrlScheme(line) == contains(line, HTTP_SCHEME) \/ contains(line, HTTPS_SCHEME)

\* a line the merger is to keep: no marker text, and blank, comment or URL-free
IsKeptLine(line) ==
    /\ ~HasMarkerText(line)
    /\ (IsBlankLine(line) \/ IsCommentLine(line) \/ ~HasUrlScheme(line))

LinesBefore == existing_content_of(store_before)

LinesAfter == existing_content_of(store)

Merged == phase # "fresh" /\ call_urls # <<>>

RECURSIVE IsSubsequence(_, _)
IsSubsequence(a, b) ==
    IF a = <<>> THEN TRUE
    ELSE IF b = <<>> THEN FALSE
    ELSE IF Head(a) = Head(b) THEN IsSubsequence(Tail(a), Tail(b))
    ELSE IsSubsequence(a, Tail(b))

\* C2: a call with an empty URL list leaves the store exactly as it was
\* (content and existence) and returns normally, reporting "skipped".
C2_EmptyListLeavesStore ==
    (phase # "fresh" /\ call_urls = <<>>) =>
        (store = store_before /\ status = "skipped")

C2_Witness ==
    /\ phase # "fresh" /\ call_urls = <<>>
    /\ store_before.exists /\ Len(LinesBefore) >= 2
    /\ status = "skipped"

\* C3 as claimed: after a merge with a non-empty list every comment line and
\* every blank line of the input file is a line of the output file.
C3_NeverDeletesCommentOrBlank ==
    Merged =>
        \A i \in DOMAIN LinesBefore :
            (IsBlankLine(LinesBefore[i]) \/ IsCommentLine(LinesBefore[i])) =>
                \E j \in DOMAIN LinesAfter :
                    Body(LinesAfter[j]) = Body(LinesBefore[i])

\* the lines C3 protects once amended: comments without the marker text, and
\* blank lines that a later kept non-blank line follows
IsProtected(lines, i) ==
    \/ IsCommentLine(lines[i]) /\ ~HasMarkerText(lines[i])
    \/ /\ IsBlankLine(lines[i])
       /\ \E k \in (i + 1)..Len(lines) :
            IsKeptLine(lines[k]) /\ ~IsBlankLine(lines[k])

ProtectedBodies(lines) ==
    LET idx == {i \in DOMAIN lines : IsProtected(lines, i)}
        nth(k) == CHOOSE i \in idx : Cardinality({x \in idx : x <= i}) = k
    IN  [k \in 1..Cardinality(idx) |-> Body(lines[nth(k)])]

\* C3 amended: after a merge with a non-empty list, every comment line that
\* does not hold the auto-update marker text, and every blank line that is
\* followed later in the file by a kept non-blank line, is present in the
\* output file: each occurrence, in the original relative order.
C3_KeepsProtectedLines ==
    Merged => IsSubsequence(ProtectedBodies(LinesBefore), Bodies(LinesAfter))

\* a URL line, then a blank line, then a comment: the blank sits after
\* auto-generated data and is protected
C3_Witness ==
    /\ Merged
    /\ \E i, j, k \in DOMAIN LinesBefore :
        /\ i < j /\ j < k
        /\ HasUrlScheme(LinesBefore[i]) /\ ~IsCommentLine(LinesBefore[i])
        /\ IsBlankLine(LinesBefore[j])
        /\ IsCommentLine(LinesBefore[k]) /\ ~HasMarkerText(LinesBefore[k])

CommentBlankLines(lines) ==
    SelectSeq(lines, LAMBDA l : IsBlankLine(l) \/ IsCommentLine(l))

\* C4 as claimed: two consecutive merges with the same non-empty list leave,
\* after the second, the comment and blank lines the first one left.
C4_IdempotentOnPreserved ==
    (phase = "twice" /\ call_urls # <<>> /\ prev_urls = call_urls) =>
        CommentBlankLines(LinesAfter) = CommentBlankLines(LinesBefore)

DataLine == join(<<",">>, call_urls) \o <<"\n">>

\* C5 as claimed: the output is the prior lines without marker and URL
\* lines, then the marker line and the data line, and nothing else.
C5_KeptThenMarkerThenData ==
    Merged =>
        Bodies(LinesAfter) =
            Bodies(SelectSeq(LinesBefore,
                LAMBDA l : ~HasMarkerText(l) /\ ~HasUrlScheme(l)))
            \o <<Body(MARKER_LINE), Body(DataLine)>>

\* the kept lines without the blank lines that trail them
TrimmedKept(lines) ==
    LET kept == SelectSeq(lines, IsKeptLine)
        solid == {i \in DOMAIN kept : ~IsBlankLine(kept[i])}
        last == IF solid = {} THEN 0
                ELSE CHOOSE i \in solid : \A x \in solid : x <= i
    IN  SubSeq(kept, 1, last)

\* C5 amended: after a merge with a non-empty list the file is: the prior
\* lines in their original order, without the lines holding the marker text
\* and without the non-comment, non-blank lines holding "http://" or
\* "https://", and with the blank lines trailing that region trimmed; then,
\* when a kept line remains, one newline character (an empty separator line,
\* or the terminator of the last kept line when it had none); then exactly
\* one marker line immediately followed by exactly one data line holding the
\* URLs joined by commas in input order, as the last two lines of the file.
C5_MergedLayout ==
    Merged =>
        LET kept == TrimmedKept(LinesBefore)
            n == Len(LinesAfter)
        IN  /\ store.exists
            /\ store.content =
                   writelines(kept)
                   \o (IF kept # <<>> THEN <<"\n">> ELSE <<>>)
                   \o MARKER_LINE \o DataLine
            /\ n >= 2
            /\ LinesAfter[n - 1] = MARKER_LINE
            /\ LinesAfter[n] = DataLine
            /\ \A i \in 1..(n - 2) : ~HasMarkerText(LinesAfter[i])

\* a merge of two URLs into a file that held a comment, a marker and data
C5_Witness ==
    /\ Merged /\ Len(call_urls) = 2
    /\ \E i, j, k \in DOMAIN LinesBefore :
        /\ IsCommentLine(LinesBefore[i]) /\ ~HasMarkerText(LinesBefore[i])
        /\ HasMarkerText(LinesBefore[j])
        /\ HasUrlScheme(LinesBefore[k]) /\ ~IsCommentLine(LinesBefore[k])

\* a URL without commas or surrounding whitespace
IsBareUrl(u) ==
    /\ \A k \in DOMAIN u : u[k] # ","
    /\ u # <<>> => (u[1] \notin Whitespace /\ u[Len(u)] \notin Whitespace)

\* C14 as claimed: after a non-empty list of URLs without commas or
\* surrounding whitespace is merged into any store file,
\* load_urls_from_file returns exactly that list, in order, nothing added.
C14_RoundTrip ==
    (Merged /\ \A i \in DOMAIN call_urls : IsBareUrl(call_urls[i]))
        => load_urls_from_file(store) = call_urls

\* an 'other' line: not blank, not a comment, without the marker text and
\* without a URL scheme
IsOtherLine(line) ==
    /\ ~IsBlankLine(line)
    /\ ~IsCommentLine(line)
    /\ ~HasMarkerText(line)
    /\ ~HasUrlScheme(line)

\* The round trip does hold when the store held no 'other' line: the
\* merger then leaves only blank lines, comments, the marker and the data
\* line, and the reader returns the URLs of the data line.
RoundTripWithoutOtherLines ==
    (/\ Merged
     /\ \A i \in DOMAIN call_urls : IsBareUrl(call_urls[i])
     /\ \A i \in DOMAIN LinesBefore : ~IsOtherLine(Body(LinesBefore[i])))
        => load_urls_from_file(store) = call_urls

(***************************************************************************)
(* update_daily_urls.py: extract_headline_urls and main                    *)
(*                                                                         *)
(* An element of the parsed page is [cls, link]: cls is its class          *)
(* attribute as the list of its tokens (empty when it has none), link is   *)
(* the first <a> with an href attribute inside it: [has, href, text,       *)
(* title], has = FALSE when there is none.                                 *)
(***************************************************************************)
SA_ITEM == <<"s", "a", "_", "i", "t", "e", "m">>

SECTION_HEADLINE == <<"_", "S", "E", "C", "T", "I", "O", "N", "_", "H", "E", "A", "D", "L", "I", "N", "E">>

ORIGIN == <<"h", "t", "t", "p", "s", ":", "/", "/", "n", "e", "w", "s", ".", "n", "a", "v", "e", "r", ".", "c", "o", "m">>

ARTICLE == <<"a", "r", "t", "i", "c", "l", "e">>

\* has_headline_class on a string
has_headline_class(class_list) ==
    /\ class_list # <<>>
    /\ contains(class_list, SA_ITEM)
    /\ contains(class_list, SECTION_HEADLINE)

\* soup.find_all(class_=has_headline_class): the function is tried on each
\* token of the class attribute, then on the tokens joined by a space
matches_headline(el) ==
    \/ \E i \in DOMAIN el.cls : has_headline_class(el.cls[i])
    \/ has_headline_class(join(<<" ">>, el.cls))

\* soup.find_all(class_='sa_item'), filtered on the joined class attribute
matches_fallback(el) ==
    /\ \/ \E i \in DOMAIN el.cls : el.cls[i] = SA_ITEM
       \/ join(<<" ">>, el.cls) = SA_ITEM
    /\ contains(join(<<" ">>, el.cls), SECTION_HEADLINE)

headline_elements_of(elements) ==
    LET primary == SelectSeq(elements, matches_headline)
    IN  IF primary # <<>> THEN primary
        ELSE SelectSeq(elements, matches_fallback)

\* limited with the slice left out: every matched element is scanned
limited_all(elements, n) == elements

\* headline_elements[:max_urls]
limited(elements, n) == slice_to(elements, n)

\* lines 85-92: relative to absolute, fragment removed
normalize_href(href) ==
    LET absolute ==
            IF startswith(href, <<"/">>) THEN ORIGIN \o href
            ELSE IF ~startswith(href, <<"h", "t", "t", "p">>)
                 THEN ORIGIN \o <<"/">> \o href
            ELSE href
    IN  IF contains(absolute, <<"#">>) THEN split(absolute, "#")[1]
        ELSE absolute

\* link_tag.get_text(strip=True) or link_tag.get('title', '')
title_of(link) ==
    IF strip(link.text) # <<>> THEN strip(link.text) ELSE link.title

SeqContains(seq, x) == \E i \in DOMAIN seq : seq[i] = x

\* the for loop of lines 75-99
RECURSIVE extract_loop(_, _, _, _)
extract_loop(elements, urls, titles, log) ==
    IF elements = <<>> THEN [urls |-> urls, titles |-> titles, log |-> log]
    ELSE LET element == Head(elements)
             link_tag == element.link
             href == strip(link_tag.href)
             url == normalize_href(href)
         IN  IF ~link_tag.has \/ href = <<>>
             THEN extract_loop(Tail(elements), urls, titles, log)
             ELSE IF contains(url, ARTICLE) /\ ~SeqContains(urls, url)
                  THEN extract_loop(Tail(elements), Append(urls, url),
                           Append(titles, title_of(link_tag)),
                           Append(log, [href |-> href, url |-> url]))
                  ELSE extract_loop(Tail(elements), urls, titles,
                           Append(log, [href |-> href, url |-> url]))

\* extract_headline_urls once the page content is fetched
extract_from(elements, n) ==
    extract_loop(limited(headline_elements_of(elements), n), <<>>, <<>>, <<>>)

\* the with block of line 30 never left through __exit__ (the instance made
\* by sync_playwright().start() and not stopped)
exit_playwright_none(playwright, browser, context) ==
    [playwright |-> playwright, browser |-> browser, context |-> context]

\* line 30, leaving the with block (normally or by an exception): __exit__
\* stops the Playwright instance, and with it its driver process, which
\* closes every context and browser it still holds open
exit_playwright(playwright, browser, context) ==
    IF playwright = "started"
    THEN [playwright |-> "stopped",
          browser |-> IF browser = "open" THEN "closed" ELSE browser,
          context |-> IF context = "open" THEN "closed" ELSE context]
    ELSE [playwright |-> playwright, browser |-> browser, context |-> context]

\* the statements inside the try of lines 29-101, by the step that runs them
TrySteps ==
    {"start", "launch", "new_context", "goto", "content", "close_context",
     "close_browser", "parse"}

\* save_headlines: the headlines file it leaves
save_headlines(file, titles) ==
    IF titles = <<>> THEN file
    ELSE [exists |-> TRUE, headlines |-> titles]

(***************************************************************************)
(* Inputs of the extractor: rendered pages.                                *)
(***************************************************************************)
NoLink == [has |-> FALSE, href |-> <<>>, text |-> <<>>, title |-> <<>>]

Link(href, text, title) ==
    [has |-> TRUE, href |-> href, text |-> text, title |-> title]

Headline(link) == [cls |-> <<SA_ITEM, SECTION_HEADLINE>>, link |-> link]

ElementPool ==
    { Headline(NoLink),
      Headline(Link(<<" ">>, <<"e">>, <<>>)),
      \* /article/1
      Headline(Link(<<"/">> \o ARTICLE \o <<"/", "1">>, <<" ", "r", " ">>, <<>>)),
      \* //news.naver.com/article/1
      Headline(Link(<<"/", "/", "n", "e", "w", "s", ".", "n", "a", "v", "e", "r", ".", "c", "o", "m", "/">>
                    \o ARTICLE \o <<"/", "1">>, <<"p">>, <<>>)),
      \* https://news.naver.com/article/1#c
      Headline(Link(ORIGIN \o <<"/">> \o ARTICLE \o <<"/", "1", "#", "c">>, <<"f">>, <<>>)),
      \* /section/3
      Headline(Link(<<"/", "s", "e", "c", "t", "i", "o", "n", "/", "3">>, <<"s">>, <<>>)),
      \* article/2, its title in the title attribute
      Headline(Link(ARTICLE \o <<"/", "2">>, <<>>, <<"b">>)),
      \* an item that is no headline
      [cls |-> <<SA_ITEM>>, link |-> Link(<<"/">> \o ARTICLE \o <<"/", "9">>, <<"n">>, <<>>)],
      \* class="sa_item_x _SECTION_HEADLINE2"
      [cls |-> <<SA_ITEM \o <<"_", "x">>, SECTION_HEADLINE \o <<"2">>>>,
       link |-> Link(<<"/">> \o ARTICLE \o <<"/", "7">>, <<"x">>, <<>>)] }

Pages == UNION { [1..n -> ElementPool] : n \in 0..MaxElements }

(***************************************************************************)
(* main of update_daily_urls.py                                            *)
(***************************************************************************)
OthersIdleForExtract ==
    /\ MergeIdle
    /\ ConcIdle
    /\ TweetIdle
    /\ PushIdle
    /\ now = NoDate

InitExtract ==
    /\ OthersIdleForExtract
    /\ store = AbsentFile
    /\ store_before = AbsentFile
    /\ headlines_file = NoHeadlinesFile
    /\ x_pc = "start"
    /\ x_playwright = "none"
    /\ x_browser = "none"
    /\ x_context = "none"
    /\ x_raised = FALSE
    /\ x_page = <<>>
    /\ x_max_urls \in -1..MaxCount
    /\ x_urls = <<>>
    /\ x_titles = <<>>
    /\ href_log = <<>>
    /\ x_exit = -1

\* line 30: with sync_playwright() as p, entered
StartPlaywright ==
    /\ x_pc = "start"
    /\ x_playwright' = "started"
    /\ x_pc' = "launch"
    /\ UNCHANGED <<x_browser, x_context, x_raised, x_page, x_max_urls, x_urls,
                   x_titles, href_log, x_exit, headlines_file>>
    /\ UNCHANGED <<mergeVars, concVars, now, tweetVars, pushVars>>

\* line 31: p.chromium.launch
LaunchBrowser ==
    /\ x_pc = "launch"
    /\ x_browser' = "open"
    /\ x_pc' = "new_context"
    /\ UNCHANGED <<x_playwright, x_context, x_raised, x_page, x_max_urls,
                   x_urls, x_titles, href_log, x_exit, headlines_file>>
    /\ UNCHANGED <<mergeVars, concVars, now, tweetVars, pushVars>>

\* lines 32-39: browser.new_context, context.new_page, the headers set
NewContext ==
    /\ x_pc = "new_context"
    /\ x_context' = "open"
    /\ x_pc' = "goto"
    /\ UNCHANGED <<x_playwright, x_browser, x_raised, x_page, x_max_urls,
                   x_urls, x_titles, href_log, x_exit, headlines_file>>
    /\ UNCHANGED <<mergeVars, concVars, now, tweetVars, pushVars>>

\* lines 41-44: page.goto and the settle delay
Navigate ==
    /\ x_pc = "goto"
    /\ x_pc' = "content"
    /\ UNCHANGED <<x_playwright, x_browser, x_context, x_raised, x_page,
                   x_max_urls, x_urls, x_titles, href_log, x_exit,
                   headlines_file>>
    /\ UNCHANGED <<mergeVars, concVars, now, tweetVars, pushVars>>

\* line 46: html_content = page.content()
GetContent ==
    /\ x_pc = "content"
    /\ x_page' \in Pages
    /\ x_pc' = "close_context"
    /\ UNCHANGED <<x_playwright, x_browser, x_context, x_raised, x_max_urls,
                   x_urls, x_titles, href_log, x_exit, headlines_file>>
    /\ UNCHANGED <<mergeVars, concVars, now, tweetVars, pushVars>>

\* line 47: context.close()
CloseContext ==
    /\ x_pc = "close_context"
    /\ x_context' = "closed"
    /\ x_pc' = "close_browser"
    /\ UNCHANGED <<x_playwright, x_browser, x_raised, x_page, x_max_urls,
                   x_urls, x_titles, href_log, x_exit, headlines_file>>
    /\ UNCHANGED <<mergeVars, concVars, now, tweetVars, pushVars>>

\* line 48: browser.close()
CloseBrowser ==
    /\ x_pc = "close_browser"
    /\ x_browser' = "closed"
    /\ x_pc' = "parse"
    /\ UNCHANGED <<x_playwright, x_context, x_raised, x_page, x_max_urls,
                   x_urls, x_titles, href_log, x_exit, headlines_file>>
    /\ UNCHANGED <<mergeVars, concVars, now, tweetVars, pushVars>>

\* lines 51-101 and 109: the page parsed, the loop run, the with block
\* left, urls and titles returned
ExtractHeadlines ==
    /\ x_pc = "parse"
    /\ LET r == extract_from(x_page, x_max_urls)
       IN  /\ x_urls' = r.urls
           /\ x_titles' = r.titles
           /\ href_log' = r.log
    /\ LET e == exit_playwright(x_playwright, x_browser, x_context)
       IN  /\ x_playwright' = e.playwright
           /\ x_browser' = e.browser
           /\ x_context' = e.context
    /\ x_pc' = "extracted"
    /\ UNCHANGED <<x_raised, x_page, x_max_urls, x_exit, headlines_file>>
    /\ UNCHANGED <<mergeVars, concVars, now, tweetVars, pushVars>>

\* the statement at x_pc raises: the with block is left through its
\* __exit__, the handler of lines 103-107 returns [], []
ExtractFails ==
    /\ x_pc \in TrySteps
    /\ LET e == exit_playwright(x_playwright, x_browser, x_context)
       IN  /\ x_playwright' = e.playwright
           /\ x_browser' = e.browser
           /\ x_context' = e.context
    /\ x_urls' = <<>>
    /\ x_titles' = <<>>
    /\ x_raised' = TRUE
    /\ x_pc' = "extracted"
    /\ UNCHANGED <<x_page, x_max_urls, href_log, x_exit, headlines_file>>
    /\ UNCHANGED <<mergeVars, concVars, now, tweetVars, pushVars>>

\* main, lines 216-218
ExitNoUrls ==
    /\ x_pc = "extracted"
    /\ x_urls = <<>>
    /\ x_exit' = 1
    /\ x_pc' = "exited"
    /\ UNCHANGED <<x_playwright, x_browser, x_context, x_raised, x_page,
                   x_max_urls, x_urls, x_titles, href_log, headlines_file>>
    /\ UNCHANGED <<mergeVars, concVars, now, tweetVars, pushVars>>

\* main, lines 220-226
UpdateFiles ==
    /\ x_pc = "extracted"
    /\ x_urls # <<>>
    /\ store' = update_daily_urls_file(store, x_urls).file
    /\ headlines_file' = save_headlines(headlines_file, x_titles)
    /\ x_exit' = 0
    /\ x_pc' = "exited"
    /\ UNCHANGED <<x_playwright, x_browser, x_context, x_raised, x_page,
                   x_max_urls, x_urls, x_titles, href_log>>
    /\ UNCHANGED <<store_before, call_urls, prev_urls, status, phase, concVars>>
    /\ UNCHANGED <<now, tweetVars, pushVars>>

NextExtract ==
    \/ StartPlaywright
    \/ LaunchBrowser
    \/ NewContext
    \/ Navigate
    \/ GetContent
    \/ CloseContext
    \/ CloseBrowser
    \/ ExtractHeadlines
    \/ ExtractFails
    \/ ExitNoUrls
    \/ UpdateFiles

SpecExtract == InitExtract /\ [][NextExtract]_vars

(***************************************************************************)
(* Properties of the extractor.                                            *)
(***************************************************************************)
Matched == headline_elements_of(x_page)

HasUrl(el) == el.link.has /\ strip(el.link.href) # <<>>

UrlOf(el) == normalize_href(strip(el.link.href))

MatchedUrls == [i \in DOMAIN Matched |-> UrlOf(Matched[i])]

\* every matched element has a URL, and no two of them the same one
DistinctUrls ==
    /\ \A i \in DOMAIN Matched : HasUrl(Matched[i])
    /\ \A i, j \in DOMAIN Matched : i # j => MatchedUrls[i] # MatchedUrls[j]

NoDuplicates(seq) == \A i, j \in DOMAIN seq : i # j => seq[i] # seq[j]

FirstUrlsReturned ==
    /\ Len(x_urls) = x_max_urls
    /\ Len(x_titles) = x_max_urls
    /\ x_urls = SubSeq(MatchedUrls, 1, x_max_urls)
    /\ NoDuplicates(x_urls)

Extracted == x_pc \in {"extracted", "exited"} /\ href_log # <<>>

\* C6 as claimed: N matched elements with pairwise distinct URLs and
\* N >= max_count give exactly the first max_count of them, in order.
C6_ExactlyMaxCount ==
    (Extracted /\ DistinctUrls /\ x_max_urls >= 0 /\ Len(Matched) >= x_max_urls)
        => FirstUrlsReturned

\* C6 amended: N matched elements, each with a hyperlink whose normalized
\* URL contains "article", the URLs pairwise distinct, and
\* N >= max_count >= 0, give exactly max_count headlines: the first
\* max_count matched elements in document order, no URL twice.
C6_ExactlyMaxCountOfArticles ==
    (/\ Extracted /\ DistinctUrls
     /\ \A i \in DOMAIN Matched : contains(MatchedUrls[i], ARTICLE)
     /\ x_max_urls >= 0 /\ Len(Matched) >= x_max_urls)
        => FirstUrlsReturned

\* three matched article elements with distinct URLs and max_count 2
C6_Witness ==
    /\ Extracted /\ DistinctUrls
    /\ \A i \in DOMAIN Matched : contains(MatchedUrls[i], ARTICLE)
    /\ x_max_urls = 2 /\ Len(Matched) = 3
    /\ Len(x_urls) = 2

\* the absolute URL an href names on a page of https://news.naver.com
\* (RFC 3986 reference resolution), its fragment removed
Resolved(href) ==
    LET absolute ==
            IF startswith(href, <<"/", "/">>) THEN <<"h", "t", "t", "p", "s", ":">> \o href
            ELSE IF startswith(href, <<"/">>) THEN ORIGIN \o href
            ELSE IF startswith(href, HTTP_SCHEME) \/ startswith(href, HTTPS_SCHEME)
                 THEN href
            ELSE ORIGIN \o <<"/">> \o href
        cut == {i \in DOMAIN absolute : absolute[i] = "#"}
    IN  IF cut = {} THEN absolute
        ELSE SubSeq(absolute, 1, (CHOOSE i \in cut : \A k \in cut : i <= k) - 1)

\* C7: two hrefs that name the same resource (root-relative,
\* protocol-relative or fully qualified) are normalized to the same URL.
C7_SameResourceSameUrl ==
    \A i, j \in DOMAIN href_log :
        Resolved(href_log[i].href) = Resolved(href_log[j].href)
            => href_log[i].url = href_log[j].url

\* extract_headline_urls returned from line 109, not from its handler
Returned == x_pc \in {"extracted", "exited"} /\ ~x_raised

\* the acceptable URLs among the elements els, after those of acc: each
\* normalized URL that contains "article", once, in document order
RECURSIVE AcceptableUrls(_, _)
AcceptableUrls(els, acc) ==
    IF els = <<>> THEN acc
    ELSE IF /\ HasUrl(Head(els))
            /\ contains(UrlOf(Head(els)), ARTICLE)
            /\ \A i \in DOMAIN acc : acc[i] # UrlOf(Head(els))
         THEN AcceptableUrls(Tail(els), Append(acc, UrlOf(Head(els))))
         ELSE AcceptableUrls(Tail(els), acc)

\* C11: a matched element that is skipped or rejected does not consume the
\* max_count budget: the result is the first max_count acceptable distinct
\* URLs among all matched elements, and all of them when there are fewer.
C11_SkippedElementsKeepBudget ==
    (Returned /\ x_max_urls >= 0)
        => LET all == AcceptableUrls(Matched, <<>>)
               n == IF Len(all) < x_max_urls THEN Len(all) ELSE x_max_urls
           IN  x_urls = SubSeq(all, 1, n)

\* the class attribute of el holds both marker tokens
HasBothTokens(el) ==
    /\ \E i \in DOMAIN el.cls : el.cls[i] = SA_ITEM
    /\ \E i \in DOMAIN el.cls : el.cls[i] = SECTION_HEADLINE

\* C12: selection is token-set based: the selected elements are exactly
\* those whose class tokens include both 'sa_item' and '_SECTION_HEADLINE';
\* a token that merely contains one of them as a substring selects nothing.
C12_TokenSetSelection ==
    Returned => Matched = SelectSeq(x_page, HasBothTokens)

Dates ==
    { [month |-> 1, day |-> 1, weekday |-> 0],
      [month |-> 1, day |-> 2, weekday |-> 3],
      [month |-> 12, day |-> 30, weekday |-> 5],
      [month |-> 12, day |-> 31, weekday |-> 6] }

DIGITS == <<"0", "1", "2", "3", "4", "5", "6", "7", "8", "9">>

\* a number below 100 in decimal, without padding (%-m, %-d)
decimal(n) ==
    IF n < 10 THEN <<DIGITS[n + 1]>>
    ELSE <<DIGITS[(n \div 10) + 1], DIGITS[(n % 10) + 1]>>

\* datetime.now().strftime("%-m월 %-d일")
today_of(date) ==
    decimal(date.month) \o <<"U+C6D4", " ">> \o decimal(date.day) \o <<"U+C77C">>

\* weekday_kr
weekday_kr == <<"U+C6D4", "U+D654", "U+C218", "U+BAA9", "U+AE08", "U+D1A0", "U+C77C">>

ELLIPSIS == <<".", ".", ".">>

BULLET == "U+2022"

(***************************************************************************)
(* post_to_twitter.py                                                      *)
(***************************************************************************)
\* load_headlines: the list, <<>> standing for None as well
load_headlines(file) == IF file.exists THEN file.headlines ELSE <<>>

\* "🎙️ " and " 뉴스 팟캐스트\n\n"
HEADER_LEAD == <<"U+1F399", "U+FE0F", " ">>

HEADER_TAIL == <<" ", "U+B274", "U+C2A4", " ", "U+D31F", "U+CE90", "U+C2A4", "U+D2B8", "\n", "\n">>

header_of(date) ==
    HEADER_LEAD \o today_of(date) \o <<"(">> \o <<weekday_kr[date.weekday + 1]>>
    \o <<")">> \o HEADER_TAIL

\* "\n🔗 https://dailynewspod.com\n\n#뉴스팟캐스트 #데일리뉴스"
FOOTER == <<"\n", "U+1F517", " ", "h", "t", "t", "p", "s", ":", "/", "/", "d", "a", "i", "l", "y", "n", "e", "w", "s", "p", "o", "d", ".", "c", "o", "m", "\n", "\n", "#", "U+B274", "U+C2A4", "U+D31F", "U+CE90", "U+C2A4", "U+D2B8", " ", "#", "U+B370", "U+C77C", "U+B9AC", "U+B274", "U+C2A4">>

\* sum(len(l) for l in headline_lines)
RECURSIVE sum_len(_)
sum_len(lines) ==
    IF lines = <<>> THEN 0 ELSE len(Head(lines)) + sum_len(Tail(lines))

\* lines 64-66: the headline cut to 32 characters and "...", as a bullet line
headline_line(headline) ==
    LET cut == IF len(headline) > 35
               THEN slice_to(headline, 32) \o ELLIPSIS
               ELSE headline
    IN  <<BULLET, " ">> \o cut \o <<"\n">>

\* the for loop of lines 62-72, with its break
RECURSIVE headline_lines_of(_, _, _)
headline_lines_of(headlines, headline_lines, available_chars) ==
    IF headlines = <<>> THEN headline_lines
    ELSE LET line == headline_line(Head(headlines))
         IN  IF sum_len(headline_lines) + len(line) <= available_chars
             THEN headline_lines_of(Tail(headlines),
                      Append(headline_lines, line), available_chars)
             ELSE headline_lines

\* the three default messages, each around the date
DEFAULT_LEAD ==
    << <<"U+1F399", "U+FE0F", " ">>,
       <<"U+2600", "U+FE0F", " ", "U+C88B", "U+C740", " ", "U+C544", "U+CE68", "U+C774", "U+C5D0", "U+C694", "!", " ">>,
       <<"U+1F4F0", " ">> >>

DEFAULT_TAIL ==
    << <<" ", "U+B370", "U+C77C", "U+B9AC", " ", "U+B274", "U+C2A4", "U+AC00", " ", "U+B3C4", "U+CC29", "U+D588", "U+C2B5", "U+B2C8", "U+B2E4", "!", "\n", "\n", "U+C624", "U+B298", "U+C758", " ", "U+C8FC", "U+C694", " ", "U+B274", "U+C2A4", "U+B97C", " ", "U+D31F", "U+CE90", "U+C2A4", "U+D2B8", "U+B85C", " ", "U+B4E4", "U+C5B4", "U+BCF4", "U+C138", "U+C694", ".">>,
       <<" ", "U+B274", "U+C2A4", " ", "U+D31F", "U+CE90", "U+C2A4", "U+D2B8", "U+AC00", " ", "U+C900", "U+BE44", "U+B410", "U+C2B5", "U+B2C8", "U+B2E4", ".", "\n", "\n", "U+CD9C", "U+ADFC", "U+AE38", "U+C5D0", " ", "U+AC00", "U+BCCD", "U+AC8C", " ", "U+B4E4", "U+C5B4", "U+BCF4", "U+C138", "U+C694", " ", "U+1F3A7">>,
       <<" ", "U+C624", "U+B298", "U+C758", " ", "U+B274", "U+C2A4", " ", "U+BE0C", "U+B9AC", "U+D551", "!", "\n", "\n", "U+C8FC", "U+C694", " ", "U+B274", "U+C2A4", "U+B97C", " ", "U+D31F", "U+CE90", "U+C2A4", "U+D2B8", "U+B85C", " ", "U+B9CC", "U+B098", "U+BCF4", "U+C138", "U+C694", ".">> >>

default_message(date) ==
    LET message_index == date.day % 3
        dated == today_of(date) \o <<"(">> \o <<weekday_kr[date.weekday + 1]>> \o <<")">>
    IN  DEFAULT_LEAD[message_index + 1] \o dated \o DEFAULT_TAIL[message_index + 1]
        \o <<"\n">> \o FOOTER

create_tweet_message(file, date) ==
    LET headlines == load_headlines(file)
        header == header_of(date)
        available_chars == 280 - len(header) - len(FOOTER) - 10
    IN  IF headlines # <<>>
        THEN header
             \o writelines(headline_lines_of(slice_to(headlines, 3), <<>>,
                                             available_chars))
             \o FOOTER
        ELSE default_message(date)

\* main, lines 167-170
limit_message(message) ==
    IF len(message) > 280 THEN slice_to(message, 277) \o ELLIPSIS ELSE message

(***************************************************************************)
(* Inputs of the composers: words of a given length.                       *)
(***************************************************************************)
LETTERS == <<"a", "b", "c", "d", "e", "f", "g">>

Word(n) == [i \in 1..n |-> LETTERS[((i - 1) % 7) + 1]]

\* a title set wide: one letter, then nine spaces, and so on
Spaced(n) == [i \in 1..n |-> IF i % 10 = 1 THEN "x" ELSE " "]

HeadlinePool == { Word(5), Word(35), Word(36), Spaced(120) }

HeadlineFiles ==
    {NoHeadlinesFile} \cup
    { [exists |-> TRUE, headlines |-> h] :
        h \in UNION { [1..n -> HeadlinePool] : n \in 0..MaxHeadlines } }

(***************************************************************************)
(* main of post_to_twitter.py                                              *)
(***************************************************************************)
OthersIdleForTweet ==
    /\ MergeIdle
    /\ ConcIdle
    /\ ExtractIdle
    /\ PushIdle
    /\ store = AbsentFile
    /\ store_before = AbsentFile

InitTweet ==
    /\ OthersIdleForTweet
    /\ headlines_file \in HeadlineFiles
    /\ now \in Dates
    /\ t_pc = "start"
    /\ t_message = <<>>
    /\ t_result = "none"
    /\ t_output = FALSE
    /\ t_exit = -1

\* line 157
ComposeMessage ==
    /\ t_pc = "start"
    /\ t_message' = create_tweet_message(headlines_file, now)
    /\ t_pc' = "composed"
    /\ UNCHANGED <<t_result, t_output, t_exit>>
    /\ UNCHANGED <<mergeVars, concVars, extractVars, headlines_file, now, pushVars>>

\* lines 167-170
CheckLength ==
    /\ t_pc = "composed"
    /\ t_message' = limit_message(t_message)
    /\ t_pc' = "checked"
    /\ UNCHANGED <<t_result, t_output, t_exit>>
    /\ UNCHANGED <<mergeVars, concVars, extractVars, headlines_file, now, pushVars>>

\* post_to_twitter, lines 120-122: a credential is missing
PostMissingKeys ==
    /\ t_pc = "checked"
    /\ t_result' = "missing_keys"
    /\ t_pc' = "posted"
    /\ UNCHANGED <<t_message, t_output, t_exit>>
    /\ UNCHANGED <<mergeVars, concVars, extractVars, headlines_file, now, pushVars>>

\* post_to_twitter, lines 124-145: create_tweet returns
PostSucceeds ==
    /\ t_pc = "checked"
    /\ t_result' = "success"
    /\ t_pc' = "posted"
    /\ UNCHANGED <<t_message, t_output, t_exit>>
    /\ UNCHANGED <<mergeVars, concVars, extractVars, headlines_file, now, pushVars>>

\* post_to_twitter, lines 147-149: create_tweet raises a TweepyException
PostTweepyException ==
    /\ t_pc = "checked"
    /\ t_result' = "tweepy_error"
    /\ t_pc' = "posted"
    /\ UNCHANGED <<t_message, t_output, t_exit>>
    /\ UNCHANGED <<mergeVars, concVars, extractVars, headlines_file, now, pushVars>>

\* create_tweet raises an exception that is no TweepyException: no handler
\* in post_to_twitter nor in main, the interpreter exits with status 1
PostOtherException ==
    /\ t_pc = "checked"
    /\ t_exit' = 1
    /\ t_pc' = "exited"
    /\ UNCHANGED <<t_message, t_result, t_output>>
    /\ UNCHANGED <<mergeVars, concVars, extractVars, headlines_file, now, pushVars>>

\* main, lines 175-189
ExitMain ==
    /\ t_pc = "posted"
    /\ \E github_output \in BOOLEAN :
        t_output' = (github_output /\ t_result = "success")
    /\ t_exit' = 0
    /\ t_pc' = "exited"
    /\ UNCHANGED <<t_message, t_result>>
    /\ UNCHANGED <<mergeVars, concVars, extractVars, headlines_file, now, pushVars>>

NextTweet ==
    \/ ComposeMessage
    \/ CheckLength
    \/ PostMissingKeys
    \/ PostSucceeds
    \/ PostTweepyException
    \/ PostOtherException
    \/ ExitMain

SpecTweet == InitTweet /\ [][NextTweet]_vars

(***************************************************************************)
(* send_push_notification.py                                               *)
(***************************************************************************)
\* " 뉴스가 도착했어요"
HEADING_TAIL == <<" ", "U+B274", "U+C2A4", "U+AC00", " ", "U+B3C4", "U+CC29", "U+D588", "U+C5B4", "U+C694">>

\* "오늘의 뉴스 팟캐스트를 들어보세요"
DEFAULT_CONTENT == <<"U+C624", "U+B298", "U+C758", " ", "U+B274", "U+C2A4", " ", "U+D31F", "U+CE90", "U+C2A4", "U+D2B8", "U+B97C", " ", "U+B4E4", "U+C5B4", "U+BCF4", "U+C138", "U+C694">>

\* lines 65-66, with 20 characters kept before the "..."
shown_topic_20(topic) ==
    IF len(topic) > 20 THEN slice_to(topic, 20) \o ELLIPSIS ELSE topic

\* lines 65-66
shown_topic(topic) ==
    IF len(topic) > 20 THEN slice_to(topic, 17) \o ELLIPSIS ELSE topic

\* lines 63-67
topic_lines_of(topics) ==
    LET first == slice_to(topics, 3)
    IN  [i \in DOMAIN first |-> <<BULLET, " ">> \o shown_topic(first[i])]

\* create_notification_content: [heading, content]
create_notification_content(topics, date) ==
    [heading |-> today_of(date) \o HEADING_TAIL,
     content |-> IF topics # <<>>
                 THEN join(<<"\n">>, topic_lines_of(topics))
                 ELSE DEFAULT_CONTENT]

TopicPool == { Word(1), Word(17), Word(20), Word(21), Word(25) }

\* None, or a non-empty list of non-empty topics
TopicLists == UNION { [1..n -> TopicPool] : n \in 0..MaxTopics }

OthersIdleForPush ==
    /\ MergeIdle
    /\ ConcIdle
    /\ ExtractIdle
    /\ TweetIdle
    /\ store = AbsentFile
    /\ store_before = AbsentFile
    /\ headlines_file = NoHeadlinesFile

InitPush ==
    /\ OthersIdleForPush
    /\ now \in Dates
    /\ p_pc = "start"
    /\ p_topics \in TopicLists
    /\ p_heading = <<>>
    /\ p_content = <<>>
    /\ p_sent = "none"
    /\ p_exit = -1

\* lines 84-87: a credential is missing, sys.exit(0)
SkipNoCredentials ==
    /\ p_pc = "start"
    /\ p_exit' = 0
    /\ p_pc' = "exited"
    /\ UNCHANGED <<p_topics, p_heading, p_content, p_sent>>
    /\ UNCHANGED <<mergeVars, concVars, extractVars, headlines_file, now, tweetVars>>

\* line 89
ComposeNotification ==
    /\ p_pc = "start"
    /\ LET c == create_notification_content(p_topics, now)
       IN  /\ p_heading' = c.heading
           /\ p_content' = c.content
    /\ p_pc' = "composed"
    /\ UNCHANGED <<p_topics, p_sent, p_exit>>
    /\ UNCHANGED <<mergeVars, concVars, extractVars, headlines_file, now, tweetVars>>

\* lines 110-134: the request, answered or failing in kind; every failure is
\* caught, the function returns and the script ends with status 0
SendNotification(kind) ==
    /\ p_pc = "composed"
    /\ p_sent' = kind
    /\ p_exit' = 0
    /\ p_pc' = "exited"
    /\ UNCHANGED <<p_topics, p_heading, p_content>>
    /\ UNCHANGED <<mergeVars, concVars, extractVars, headlines_file, now, tweetVars>>

NextPush ==
    \/ SkipNoCredentials
    \/ ComposeNotification
    \/ \E kind \in {"ok", "http_error", "error"} : SendNotification(kind)

SpecPush == InitPush /\ [][NextPush]_vars

(***************************************************************************)
(* Properties of the composers and of the delivery calls.                  *)
(***************************************************************************)
\* C1: the message handed to the posting call is at most 280 characters
\* long, whatever the headlines and the date.
C1_MessageWithinLimit ==
    t_pc \in {"checked", "posted", "exited"} => Len(t_message) <= 280

\* four headlines, long ones among them, composed and handed to the post
C1_Witness ==
    /\ t_pc = "posted"
    /\ Len(headlines_file.headlines) = 4
    /\ \E i \in 1..3 : Len(headlines_file.headlines[i]) > 100
    /\ Len(t_message) <= 280

Rendered(topic) ==
    IF Len(topic) > 20 THEN SubSeq(topic, 1, 17) \o <<".", ".", ".">> ELSE topic

\* C8: for a non-empty topic list the body has min(3, n) lines, line i the
\* bullet and topic i: unchanged when of 20 characters or fewer, else its
\* first 17 characters and "..." (20 in all); later topics do not appear.
C8_PushBody ==
    ((p_pc = "composed" \/ p_sent # "none") /\ p_topics # <<>>) =>
        LET lines == split(p_content, "\n")
            n == IF Len(p_topics) < 3 THEN Len(p_topics) ELSE 3
        IN  /\ Len(lines) = n
            /\ \A i \in 1..n :
                /\ lines[i] = <<BULLET, " ">> \o Rendered(p_topics[i])
                /\ Len(p_topics[i]) > 20 => Len(lines[i]) = 2 + 20

\* four topics, a long one among the first three, composed
C8_Witness ==
    /\ p_pc = "composed"
    /\ Len(p_topics) = 4
    /\ Len(p_topics[2]) > 20 /\ Len(p_topics[1]) <= 20
    /\ Len(split(p_content, "\n")) = 3

\* C9: a script that made its delivery call ends with status 0, the status
\* of a run whose call succeeded, whatever the call raised.
C9_DeliveryFailureNonFatal ==
    /\ t_pc = "exited" => t_exit = 0
    /\ p_pc = "exited" => p_exit = 0

(***************************************************************************)
(* All the scripts: each behaviour runs one of them.                       *)
(***************************************************************************)
Init == InitMerge \/ InitConc \/ InitExtract \/ InitTweet \/ InitPush

Next == NextMerge \/ NextConc \/ NextExtract \/ NextTweet \/ NextPush

Spec == Init /\ [][Next]_vars

====
